---- MODULE Spec2Model ----
(***************************************************************************)
(* The conditional form-state engine of @adimis/react-formix: the hook     *)
(* useSchemaForm (src/src/App.tsx, lines 443-799) with the helpers         *)
(* checkRemoveValidationCondition, onErrorRemoveValidationCheck and        *)
(* onChangeRemoveValidationCheck.  One action per event the hook handles:  *)
(* a value change (with the effects it triggers), a submit (valid or       *)
(* invalid path), the settling of an awaited callback, and a swap of the   *)
(* field list by the caller.                                               *)
(***************************************************************************)
EXTENDS Integers, Sequences, FiniteSets, TLC

\* ---------------------------------------------------------------- bounds
\* Field values are the numbers 0..MaxVal (and undefined for an absent key).
MaxVal == 1
\* At most MaxPending awaited submit callbacks are pending at a time.
MaxPending == 2

\* ------------------------------------------------------------ data model
\* JavaScript's undefined: what formResponse[dependentField] yields for a
\* key the snapshot does not hold.
Undefined == -1

Keys == {"email", "password", "ref"}
Values == 0 .. MaxVal

\* An optional list of conditions: absent (undefined) or a list.
Absent == [present |-> FALSE, list |-> << >>]
List(l) == [present |-> TRUE, list |-> l]

\* ValidationCondition / DisplayCondition.
Cond(f, op, v) ==
    [dependentField |-> f, operator |-> op, dependentFieldValue |-> v,
     relation |-> "none"]
CondAnd(f, op, v) ==
    [dependentField |-> f, operator |-> op, dependentFieldValue |-> v,
     relation |-> "and"]

\* IFieldSchema: key, validations (hasValidations / the set of values the
\* rule accepts), displayConditions, removeValidationConditions,
\* defaultValue (Undefined when the field declares none).
Field(k, hasV, acc, dc, rvc, dflt) ==
    [key |-> k, hasValidations |-> hasV, accepts |-> acc,
     displayConditions |-> dc, removeValidationConditions |-> rvc,
     defaultValue |-> dflt]

\* The empty object {} (a snapshot, an exemption map).
EmptyObj == [k \in {} |-> 0]

\* ------------------------------------------------- ConditionCheck (4.1)
\* formResponse[dependentField]
Lookup(formResponse, k) ==
    IF k \in DOMAIN formResponse THEN formResponse[k] ELSE Undefined

\* Mutant: undefined is converted to 0 instead of NaN.
JsLess_zero(a, b) ==
    (IF a = Undefined THEN 0 ELSE a) < (IF b = Undefined THEN 0 ELSE b)

\* The relational operators of JavaScript on numbers and undefined:
\* undefined converts to NaN and every comparison with NaN is false.
JsLess(a, b) == a # Undefined /\ b # Undefined /\ a < b
JsLessEq(a, b) == a # Undefined /\ b # Undefined /\ a <= b

\* The switch over the operator.
EvalOperator(operator, actualValue, dependentFieldValue) ==
    CASE operator = "===" -> actualValue = dependentFieldValue
      [] operator = "!==" -> actualValue # dependentFieldValue
      [] operator = "<" -> JsLess(actualValue, dependentFieldValue)
      [] operator = "<=" -> JsLessEq(actualValue, dependentFieldValue)
      [] operator = ">" -> JsLess(dependentFieldValue, actualValue)
      [] operator = ">=" -> JsLessEq(dependentFieldValue, actualValue)
      [] OTHER -> FALSE

EvalCondition(condition, formResponse) ==
    EvalOperator(condition.operator,
                 Lookup(formResponse, condition.dependentField),
                 condition.dependentFieldValue)

\* Mutant: the relation field is honoured; a condition without
\* relation "and" is skipped.
checkRemoveValidationCondition_relation(data, formResponse) ==
    IF ~data.present
    THEN FALSE
    ELSE \A i \in 1 .. Len(data.list) :
            data.list[i].relation = "and" => EvalCondition(data.list[i], formResponse)

\* checkRemoveValidationCondition(data, formResponse): false when data is
\* undefined, otherwise data.every(condition holds).
checkRemoveValidationCondition(data, formResponse) ==
    IF ~data.present
    THEN FALSE
    ELSE \A i \in 1 .. Len(data.list) : EvalCondition(data.list[i], formResponse)

\* -------------------------------- ValidationExemptionResolver (4.3)
\* schema.find((field) => field.key === key)?.removeValidationConditions:
\* the list of the first field with that key, undefined when there is none.
FindRemoveValidationConditions(schema, key) ==
    LET hits == {i \in 1 .. Len(schema) : schema[i].key = key}
    IN  IF hits = {}
        THEN Absent
        ELSE schema[CHOOSE i \in hits : \A j \in hits : i <= j].removeValidationConditions

\* Mutant: every key is recorded with the result of the whole pass
\* (isEveryCheckValid) instead of its own check.
onErrorRemoveValidationCheck_overall(errorKeys, schema, formResponse, prev) ==
    LET fieldValidationRemoveApproved(key) ==
            checkRemoveValidationCondition(
                FindRemoveValidationConditions(schema, key), formResponse)
        isEveryCheckValid == \A key \in errorKeys : fieldValidationRemoveApproved(key)
    IN  [isValidForSubmission |-> isEveryCheckValid,
         map |-> [k \in (DOMAIN prev) \cup errorKeys |->
                     IF k \in errorKeys THEN isEveryCheckValid ELSE prev[k]]]

\* onErrorRemoveValidationCheck(errors, schema, formResponse, setter): one
\* check per top-level key of errors (errorKeys is Object.keys(errors)),
\* each recorded by setCanRemoveValidationFor((prev) => ({...prev, [key]:
\* approved})); returns whether every check holds.
onErrorRemoveValidationCheck(errorKeys, schema, formResponse, prev) ==
    LET fieldValidationRemoveApproved(key) ==
            checkRemoveValidationCondition(
                FindRemoveValidationConditions(schema, key), formResponse)
        isEveryCheckValid == \A key \in errorKeys : fieldValidationRemoveApproved(key)
    IN  [isValidForSubmission |-> isEveryCheckValid,
         map |-> [k \in (DOMAIN prev) \cup errorKeys |->
                     IF k \in errorKeys
                     THEN fieldValidationRemoveApproved(k) ELSE prev[k]]]

\* Mutant: the map is built anew from the snapshot keys, without ...prev.
onChangeRemoveValidationCheck_rebuild(schema, formResponse, prev) ==
    [k \in DOMAIN formResponse |->
        checkRemoveValidationCondition(
            FindRemoveValidationConditions(schema, k), formResponse)]

\* onChangeRemoveValidationCheck(schema, formResponse, setter): one check
\* per key of the snapshot (Object.keys(formResponse)), recorded the same
\* way; the exemption map it leaves.
onChangeRemoveValidationCheck(schema, formResponse, prev) ==
    LET fieldValidationRemoveApproved(key) ==
            checkRemoveValidationCondition(
                FindRemoveValidationConditions(schema, key), formResponse)
    IN  [k \in (DOMAIN prev) \cup (DOMAIN formResponse) |->
            IF k \in DOMAIN formResponse
            THEN fieldValidationRemoveApproved(k) ELSE prev[k]]

\* ------------------------------------------------ VisibilityResolver (4.2)
\* updateFieldVisibility(schema, formValues, setVisibleFields): a field is
\* visible when its displayConditions are absent or empty, otherwise iff
\* every condition holds against the snapshot.
updateFieldVisibility(schema, formValues) ==
    {schema[i].key : i \in
        {j \in 1 .. Len(schema) :
            \/ ~schema[j].displayConditions.present
            \/ \A n \in 1 .. Len(schema[j].displayConditions.list) :
                  EvalCondition(schema[j].displayConditions.list[n], formValues)}}

\* new Set(schema?.map((item) => item.key) || [])
SchemaKeys(schema) == {schema[i].key : i \in 1 .. Len(schema)}

\* ------------------------------------------------- validation errors
\* Error objects are JSON trees: a leaf, an object (property -> tree) or
\* an array (sequence of trees).
JLeaf(v) == [t |-> "leaf", v |-> v]
JObj(f) == [t |-> "obj", f |-> f]
JArr(s) == [t |-> "arr", s |-> s]
NoErrors == JObj(EmptyObj)

\* Object.keys(errors)
ObjectKeys(obj) == DOMAIN obj.f

\* Mutant: ref is removed from the top-level entries only; arrays and
\* deeper objects are returned as they are.
stripRefsFromErrors_shallow(obj) ==
    IF obj.t = "obj"
    THEN JObj([k \in (DOMAIN obj.f) \ {"ref"} |->
                  IF obj.f[k].t = "obj"
                  THEN JObj([x \in (DOMAIN obj.f[k].f) \ {"ref"} |-> obj.f[k].f[x]])
                  ELSE obj.f[k]])
    ELSE obj

\* stripRefsFromErrors(obj): arrays are mapped, objects are copied without
\* the properties named ref, anything else is returned as it is.
RECURSIVE stripRefsFromErrors(_)
stripRefsFromErrors(obj) ==
    IF obj.t = "arr"
    THEN JArr([i \in DOMAIN obj.s |-> stripRefsFromErrors(obj.s[i])])
    ELSE IF obj.t = "obj"
    THEN JObj([k \in (DOMAIN obj.f) \ {"ref"} |-> stripRefsFromErrors(obj.f[k])])
    ELSE obj

\* generateDynamicSchema(schema): the rule of each field that declares one,
\* under the field's key; a field without a rule accepts any value.
generateDynamicSchema(schema) ==
    [k \in {schema[i].key : i \in {j \in 1 .. Len(schema) : schema[j].hasValidations}} |->
        (schema[CHOOSE i \in 1 .. Len(schema) :
                    schema[i].key = k /\ schema[i].hasValidations]).accepts]

\* The FieldErrors entry react-hook-form records for a failing field.  A
\* plain FieldError holds type, message and ref (the field's input
\* element); with criteriaMode "all" it also holds types; the entry of a
\* list-valued field is an array with one entry per failing element, and
\* the entry of an object-valued field nests the errors of its members.
PlainFieldError(k) ==
    JObj([type |-> JLeaf("custom"), message |-> JLeaf("Invalid"), ref |-> JLeaf(k)])

FieldError(k) ==
    CASE k = "email" ->
            JArr(<< PlainFieldError(k), JObj([value |-> PlainFieldError(k)]) >>)
      [] k = "password" ->
            JObj([type |-> JLeaf("custom"), message |-> JLeaf("Invalid"),
                  ref |-> JLeaf(k),
                  types |-> JObj([custom |-> JLeaf("Invalid")])])
      [] OTHER -> PlainFieldError(k)

\* Mutant: the resolver is installed whatever enableValidations is.
Resolver_always(enableValidations, zodSchema, values) ==
    JObj([k \in {x \in DOMAIN zodSchema : Lookup(values, x) \notin zodSchema[x]} |->
             FieldError(k)])

\* resolver: enableValidations ? zodResolver(zodSchema) : undefined.
\* With a resolver the errors are those of the fields whose value the rule
\* rejects; without one no field has a rule and there are no errors.
Resolver(enableValidations, zodSchema, values) ==
    IF enableValidations
    THEN JObj([k \in {x \in DOMAIN zodSchema : Lookup(values, x) \notin zodSchema[x]} |->
                  FieldError(k)])
    ELSE NoErrors

\* ------------------------------------------------------ initial values
\* getInitialValues(formKey, schema, persistFormResponse, defaultValues):
\* per field, the persisted value when persistence is configured and the
\* store holds one, else the caller's default, else the field's
\* defaultValue; a field with none of them has no entry.
InitialValueOf(field, persist, stored, defaultValues) ==
    IF persist /\ stored.present /\ field.key \in DOMAIN stored.values
    THEN stored.values[field.key]
    ELSE IF field.key \in DOMAIN defaultValues
    THEN defaultValues[field.key]
    ELSE field.defaultValue

getInitialValues(schema, persist, stored, defaultValues) ==
    LET val(k) == InitialValueOf(
                      schema[CHOOSE i \in 1 .. Len(schema) : schema[i].key = k],
                      persist, stored, defaultValues)
    IN  [k \in {x \in SchemaKeys(schema) : val(x) # Undefined} |-> val(k)]

\* handleStorage(formKey, formValues, persistFormResponse): the snapshot
\* is written to the store when persistence is configured.
handleStorage(persist, formValues, stored) ==
    IF persist THEN [present |-> TRUE, values |-> formValues] ELSE stored

NullStore == [present |-> FALSE, values |-> EmptyObj]

\* ------------------------------------------------------ the field lists
\* The sign-up form of the example application: password is shown for the
\* administrator's e-mail (value 1) and its validation is dropped otherwise.
SchemaSignUp ==
    << Field("email", TRUE, Values, Absent, Absent, 0),
       Field("password", TRUE, {1},
             List(<< Cond("email", "===", 1) >>),
             List(<< Cond("email", "!==", 1) >>), 0) >>

\* Three validated fields: email is never exempted (no list), password has
\* two conditions on each list, the field keyed ref is exempted by password.
SchemaThree ==
    << Field("email", TRUE, {1}, Absent, Absent, Undefined),
       Field("password", TRUE, {1},
             List(<< CondAnd("email", ">=", 1), Cond("ref", "<", 1) >>),
             List(<< CondAnd("email", "<", 1), Cond("ref", "<=", 0) >>), 0),
       Field("ref", TRUE, {0},
             List(<< Cond("email", "!==", 0) >>),
             List(<< Cond("password", ">", 0) >>), 1) >>

\* Empty condition lists, and a validated field keyed ref that nothing
\* exempts.
SchemaEmptyLists ==
    << Field("email", TRUE, {1}, List(<< >>), List(<< >>), Undefined),
       Field("ref", TRUE, {1}, List(<< Cond("email", "!==", 0) >>), Absent, 0) >>

\* Two fields whose visibility depends on each other, and a condition with
\* an operator outside the six recognised ones.
SchemaMutual ==
    << Field("email", FALSE, {}, List(<< Cond("password", "===", 1) >>), Absent, 0),
       Field("password", TRUE, {1},
             List(<< Cond("email", ">=", 1) >>),
             List(<< Cond("email", "==", 0) >>), 0) >>

SchemaPool == {SchemaSignUp, SchemaThree, SchemaEmptyLists, SchemaMutual}

\* ISchemaFormProps: the flags and which callbacks are configured.
Configs ==
    [enableConditionalRendering : BOOLEAN, enableValidations : BOOLEAN,
     hasOnSubmit : BOOLEAN, hasOnInvalidSubmit : BOOLEAN,
     persistFormResponse : BOOLEAN]

\* The configurations explored: every combination of the two flags and the
\* two callbacks without persistence, and the full configuration with it
\* (persistFormResponse is read by the storage effect and by
\* getInitialValues alone).
ConfigPool ==
    {c \in Configs :
        c.persistFormResponse =>
            /\ c.enableConditionalRendering /\ c.enableValidations
            /\ c.hasOnSubmit /\ c.hasOnInvalidSubmit}

\* What the form is mounted with: the caller's defaultValues and the
\* content of the store, without and with persistence.
Mounts ==
    { [persistFormResponse |-> FALSE, defaultValues |-> EmptyObj,
       stored |-> [present |-> TRUE, values |-> [k \in {"email"} |-> 1]]],
      [persistFormResponse |-> TRUE,
       defaultValues |-> [k \in {"email", "password"} |-> IF k = "email" THEN 1 ELSE 0],
       stored |-> [present |-> TRUE, values |-> [k \in {"password"} |-> 1]]] }

\* How an invoked callback ends: it returns a plain value, throws
\* synchronously, or returns a promise, which settles later.
Outcomes == {"returns", "throws", "promise"}
\* How a promise settles.
Settlements == {"resolves", "rejects"}
IsAsync(outcome) == outcome = "promise"

\* ----------------------------------------------------------------- state
VARIABLES
    schema,                        \* props.schema, the current field list
    cfg,                           \* the other props
    formValues,                    \* the snapshot (useWatch / getValues)
    canRemoveValidationForFields,  \* the exemption map
    visibleFields,                 \* the visible set
    submitButtonLoading,           \* the loading flag
    pending,                       \* the number of awaited promises not yet settled
    storage,                       \* the persisted store of this form
    calls,                         \* the external calls of the last handler
    event,                         \* the last handler that ran
    ended,                         \* how the callback of that handler ended
    escaped,                       \* an error left a submit handler
    mounted,                       \* what the form was mounted with
    view                           \* what the last consumer render produced

vars == << schema, cfg, formValues, canRemoveValidationForFields, visibleFields,
           submitButtonLoading, pending, storage, calls, event, ended, escaped,
           mounted, view >>

\* One external call: the callback and its arguments.
Call(fn, values, errors, map) ==
    [fn |-> fn, values |-> values, errors |-> errors, map |-> map]

\* ------------------------------------------- contexts and their consumers
\* The values a truthiness test tells apart: null, and an object (which is
\* truthy whatever its properties, {} included).
Null == [t |-> "null"]
Obj(props) == [t |-> "object", props |-> props]
\* !context
Not(context) == context.t = "null"
\* context.name
Prop(context, name) ==
    IF context.t = "object" /\ name \in DOMAIN context.props
    THEN context.props[name] ELSE "undefined"

\* The provider of a context above a component, if any.
NoProvider == [present |-> FALSE, value |-> Null]
Provider(value) == [present |-> TRUE, value |-> value]

\* React.useContext(Context): the value of the nearest provider, the
\* default given to createContext when there is none.
useContext(defaultValue, provider) ==
    IF provider.present THEN provider.value ELSE defaultValue

\* createContext<...|null>(null)
FormixFormProvider == Null
FormContext == Null
\* React.createContext({} as FormFieldContextValue), and the same for
\* FieldItemContextValue.
FormFieldContext == Obj(EmptyObj)
FieldItemContext == Obj(EmptyObj)

\* How a hook or a component render ends.
Throw == [threw |-> TRUE, value |-> Null]
Return(value) == [threw |-> FALSE, value |-> value]

\* Mutant: the null check is missing; the context is returned as it is.
useFormix_nocheck(provider) ==
    Return(useContext(FormixFormProvider, provider))

\* useFormix()
useFormix(provider) ==
    LET context == useContext(FormixFormProvider, provider)
    IN  IF Not(context) THEN Throw ELSE Return(context)

\* useSchemaFormContext()
useSchemaFormContext(provider) ==
    LET context == useContext(FormContext, provider)
    IN  IF Not(context) THEN Throw ELSE Return(context)

\* useFormField(): the error of useSchemaFormContext leaves the hook.
useFormField(formProvider, fieldProvider, itemProvider) ==
    LET fieldContext == useContext(FormFieldContext, fieldProvider)
        itemContext == useContext(FieldItemContext, itemProvider)
        formContext == useSchemaFormContext(formProvider)
    IN  IF formContext.threw
        THEN Throw
        ELSE IF Not(fieldContext)
        THEN Throw
        ELSE Return(Obj([id |-> Prop(itemContext, "id"),
                         name |-> Prop(fieldContext, "name")]))

\* <FieldItem>: renders a FieldItemContext.Provider with a fresh id.
FieldItem(fieldProvider) ==
    LET fieldContext == useContext(FormFieldContext, fieldProvider)
    IN  IF Not(fieldContext) THEN Throw ELSE Return(Obj([id |-> "useId"]))

\* <FormFlexFields>: one FormField per entry of formFields, in order; the
\* keys of the fields it renders.
FormFlexFields(formProvider) ==
    LET formContext == useSchemaFormContext(formProvider)
    IN  IF formContext.threw
        THEN Throw
        ELSE LET formFields == Prop(formContext.value, "formFields")
             IN  Return(Obj([fields |-> [i \in 1 .. Len(formFields) |-> formFields[i].key]]))

\* Mutant: every field of the list is rendered.
renderFlexFields_all(sch, visible) ==
    Return(Obj([fields |-> [i \in 1 .. Len(sch) |-> sch[i].key]]))

\* renderFlexFields(props): schema.map gives, per field and in order, an
\* element for a field whose key the visible set has and null otherwise;
\* React renders nothing for null.
renderFlexFields(sch, visible) ==
    LET fields == [i \in 1 .. Len(sch) |->
                      IF sch[i].key \in visible THEN sch[i].key ELSE "null"]
    IN  Return(Obj([fields |-> SelectSeq(fields, LAMBDA element : element # "null")]))

\* renderForm(data): the fields are those the caller's renderFields
\* returns when data has one, those of renderFlexFields otherwise.
renderForm(hasRenderFields, sch, visible) ==
    IF hasRenderFields
    THEN Return(Obj([fields |-> << "renderFields" >>]))
    ELSE renderFlexFields(sch, visible)

\* Nothing rendered by a consumer since the last event of the engine.
NoView == [component |-> "none", provider |-> FALSE, formField |-> FALSE,
           result |-> Return(Null)]

\* Mutant: updateFieldVisibility sits in an effect that depends on schema
\* alone, so a value change does not recompute the visible set.
RunEffects_staledeps(sch, values, prevMap, prevVisible, stored, valuesChanged) ==
    LET cr == cfg.enableConditionalRendering
        newMap == IF cr THEN onChangeRemoveValidationCheck(sch, values, prevMap)
                        ELSE prevMap
        mapSet == cr /\ DOMAIN values # {}
    IN  [map |-> newMap,
         visible |-> IF cr /\ ~valuesChanged
                     THEN updateFieldVisibility(sch, values) ELSE prevVisible,
         storage |-> IF valuesChanged
                     THEN handleStorage(cfg.persistFormResponse, values, stored)
                     ELSE stored,
         calls |-> (IF valuesChanged
                    THEN << Call("onChange", values, NoErrors, prevMap) >>
                    ELSE << >>)
                   \o (IF mapSet
                       THEN << Call("onChange", values, NoErrors, newMap) >>
                       ELSE << >>)]

\* Mutant: visibility cascades; a field that depends on a hidden field is
\* hidden with it.
RunEffects_cascade(sch, values, prevMap, prevVisible, stored, valuesChanged) ==
    LET cr == cfg.enableConditionalRendering
        newMap == IF cr THEN onChangeRemoveValidationCheck(sch, values, prevMap)
                        ELSE prevMap
        mapSet == cr /\ DOMAIN values # {}
        direct == updateFieldVisibility(sch, values)
        hiddenKeys == SchemaKeys(sch) \ direct
        cascaded ==
            {sch[i].key : i \in
                {j \in 1 .. Len(sch) :
                    /\ sch[j].key \in direct
                    /\ \A n \in 1 .. Len(sch[j].displayConditions.list) :
                          sch[j].displayConditions.list[n].dependentField
                              \notin hiddenKeys}}
    IN  [map |-> newMap,
         visible |-> IF cr THEN cascaded ELSE prevVisible,
         storage |-> IF valuesChanged
                     THEN handleStorage(cfg.persistFormResponse, values, stored)
                     ELSE stored,
         calls |-> (IF valuesChanged
                    THEN << Call("onChange", values, NoErrors, prevMap) >>
                    ELSE << >>)
                   \o (IF mapSet
                       THEN << Call("onChange", values, NoErrors, newMap) >>
                       ELSE << >>)]

\* The effects that run after a render in which formValues or schema
\* changed, in the order the hook declares them, given the exemption map
\* of that render: the change listener (when formValues changed), the
\* conditional-rendering effect, the storage effect; the state updates of
\* the conditional-rendering effect cause one more render, in which the
\* change listener runs again because the exemption map is a new object.
RunEffects(sch, values, prevMap, prevVisible, stored, valuesChanged) ==
    LET cr == cfg.enableConditionalRendering
        newMap == IF cr THEN onChangeRemoveValidationCheck(sch, values, prevMap)
                        ELSE prevMap
        mapSet == cr /\ DOMAIN values # {}
    IN  [map |-> newMap,
         visible |-> IF cr THEN updateFieldVisibility(sch, values) ELSE prevVisible,
         storage |-> IF valuesChanged
                     THEN handleStorage(cfg.persistFormResponse, values, stored)
                     ELSE stored,
         calls |-> (IF valuesChanged
                    THEN << Call("onChange", values, NoErrors, prevMap) >>
                    ELSE << >>)
                   \o (IF mapSet
                       THEN << Call("onChange", values, NoErrors, newMap) >>
                       ELSE << >>)]

\* Mutant: the store is not read at mount.
InitWith_nostore(c) ==
    /\ schema \in SchemaPool
    /\ cfg = c
    /\ \E m \in Mounts :
          LET init == getInitialValues(schema, cfg.persistFormResponse, NullStore,
                                       m.defaultValues)
              fx == RunEffects(schema, init, EmptyObj, SchemaKeys(schema),
                               m.stored, TRUE)
          IN  /\ m.persistFormResponse = cfg.persistFormResponse
              /\ mounted = m
              /\ formValues = init
              /\ canRemoveValidationForFields = fx.map
              /\ visibleFields = fx.visible
              /\ storage = fx.storage
              /\ calls = fx.calls
    /\ submitButtonLoading = FALSE
    /\ pending = 0
    /\ event = "mount"
    /\ ended = "none"
    /\ escaped = FALSE
    /\ view = NoView

\* The first render of the hook: the props, the initial snapshot, and the
\* effects of the first render.
InitWith(c) ==
    /\ schema \in SchemaPool
    /\ cfg = c
    /\ \E m \in Mounts :
          LET init == getInitialValues(schema, cfg.persistFormResponse, m.stored,
                                       m.defaultValues)
              fx == RunEffects(schema, init, EmptyObj, SchemaKeys(schema),
                               m.stored, TRUE)
          IN  /\ m.persistFormResponse = cfg.persistFormResponse
              /\ mounted = m
              /\ formValues = init
              /\ canRemoveValidationForFields = fx.map
              /\ visibleFields = fx.visible
              /\ storage = fx.storage
              /\ calls = fx.calls
    /\ submitButtonLoading = FALSE
    /\ pending = 0
    /\ event = "mount"
    /\ ended = "none"
    /\ escaped = FALSE
    /\ view = NoView

Init == \E c \in ConfigPool : InitWith(c)

\* The forms with conditional rendering and validation on.
InitConditional ==
    \E c \in {x \in ConfigPool : x.enableConditionalRendering /\ x.enableValidations} :
        InitWith(c)

\* The forms with conditional rendering off.
InitPlain ==
    \E c \in {x \in ConfigPool : ~x.enableConditionalRendering /\ x.enableValidations} :
        InitWith(c)

\* ------------------------------------------------------ submit handlers
Failed(outcome) == outcome \in {"throws", "rejects"}

\* Mutant: no catch clause; the callback's error leaves the handler.
TryCatchFinally_nocatch(outcome) ==
    [escaped |-> Failed(outcome), submitButtonLoading |-> FALSE]

\* Mutant: the loading flag is reset after the await instead of in a
\* finally clause, so a failing callback leaves it set.
TryCatchFinally_nofinally(outcome) ==
    [escaped |-> FALSE, submitButtonLoading |-> Failed(outcome)]

\* try { await callback } catch (error) { console.error } finally {
\* setSubmitButtonLoading(false) }: what the handler leaves behind once the
\* callback has ended with `outcome`.
TryCatchFinally(outcome) ==
    [escaped |-> FALSE, submitButtonLoading |-> FALSE]

\* handleOnSubmit(values): the callbacks it invokes.
handleOnSubmit(values) ==
    IF cfg.hasOnSubmit
    THEN << Call("onSubmit", values, NoErrors, EmptyObj) >>
    ELSE << >>

\* Mutant: the branches are tested in the other order, the failure
\* callback first.
handleOnInvalidSubmit_swapped(errors) ==
    LET sanitizedErrors == stripRefsFromErrors(errors)
        check == onErrorRemoveValidationCheck(ObjectKeys(sanitizedErrors), schema,
                     formValues, canRemoveValidationForFields)
    IN  [map |-> IF cfg.enableConditionalRendering
                 THEN check.map ELSE canRemoveValidationForFields,
         calls |-> IF cfg.hasOnInvalidSubmit
                   THEN << Call("onInvalidSubmit", EmptyObj, sanitizedErrors, EmptyObj) >>
                   ELSE IF cfg.enableConditionalRendering
                           /\ check.isValidForSubmission /\ cfg.hasOnSubmit
                   THEN << Call("onSubmit", formValues, NoErrors, EmptyObj) >>
                   ELSE << >>]

\* Mutant: the exemption check runs whatever enableConditionalRendering is.
handleOnInvalidSubmit_noflag(errors) ==
    LET sanitizedErrors == stripRefsFromErrors(errors)
        check == onErrorRemoveValidationCheck(ObjectKeys(sanitizedErrors), schema,
                     formValues, canRemoveValidationForFields)
    IN  [map |-> check.map,
         calls |-> IF check.isValidForSubmission /\ cfg.hasOnSubmit
                   THEN << Call("onSubmit", formValues, NoErrors, EmptyObj) >>
                   ELSE IF cfg.hasOnInvalidSubmit
                   THEN << Call("onInvalidSubmit", EmptyObj, sanitizedErrors, EmptyObj) >>
                   ELSE << >>]

\* handleOnInvalidSubmit(errors): the exemption map it leaves and the
\* callbacks it invokes.
handleOnInvalidSubmit(errors) ==
    LET sanitizedErrors == stripRefsFromErrors(errors)
        formResponse == formValues
        check == onErrorRemoveValidationCheck(ObjectKeys(sanitizedErrors), schema,
                     formResponse, canRemoveValidationForFields)
    IN  IF cfg.enableConditionalRendering
        THEN [map |-> check.map,
              calls |-> IF check.isValidForSubmission /\ cfg.hasOnSubmit
                        THEN << Call("onSubmit", formResponse, NoErrors, EmptyObj) >>
                        ELSE IF cfg.hasOnInvalidSubmit
                        THEN << Call("onInvalidSubmit", EmptyObj, sanitizedErrors, EmptyObj) >>
                        ELSE << >>]
        ELSE [map |-> canRemoveValidationForFields,
              calls |-> IF cfg.hasOnInvalidSubmit
                        THEN << Call("onInvalidSubmit", EmptyObj, sanitizedErrors, EmptyObj) >>
                        ELSE << >>]

\* The errors react-hook-form's handleSubmit obtains for the snapshot.
CurrentErrors == Resolver(cfg.enableValidations, generateDynamicSchema(schema), formValues)

\* The rest of a submit handler once it has decided which callback to
\* invoke: setSubmitButtonLoading(true), the call, and either the await of
\* a promise (the handler stays pending) or the catch/finally at once.
Dispatch(invoked, outcome) ==
    /\ calls' = invoked
    /\ ended' = IF invoked = << >> THEN "none" ELSE outcome
    /\ IF invoked # << >> /\ IsAsync(outcome)
       THEN /\ pending < MaxPending
            /\ pending' = pending + 1
            /\ submitButtonLoading' = TRUE
            /\ escaped' = escaped
       ELSE /\ invoked = << >> => outcome = "returns"
            /\ pending' = pending
            /\ submitButtonLoading' = TryCatchFinally(outcome).submitButtonLoading
            /\ escaped' = (escaped \/ TryCatchFinally(outcome).escaped)

\* ---------------------------------------------------------------- actions
\* formMethods.handleSubmit(handleOnSubmit, handleOnInvalidSubmit) with a
\* snapshot that passes validation.
SubmitValid(outcome) ==
    /\ ObjectKeys(CurrentErrors) = {}
    /\ Dispatch(handleOnSubmit(formValues), outcome)
    /\ event' = "submitValid"
    /\ view' = NoView
    /\ UNCHANGED << schema, cfg, formValues, canRemoveValidationForFields,
                    visibleFields, storage, mounted >>

\* The same with a snapshot that fails validation.
SubmitInvalid(outcome) ==
    /\ ObjectKeys(CurrentErrors) # {}
    /\ LET h == handleOnInvalidSubmit(CurrentErrors)
       IN  /\ canRemoveValidationForFields' = h.map
           /\ Dispatch(h.calls, outcome)
    /\ event' = "submitInvalid"
    /\ view' = NoView
    /\ UNCHANGED << schema, cfg, formValues, visibleFields, storage, mounted >>

\* Mutant: after the await the handler also clears the exemption map.
Settle_clears(outcome) ==
    /\ pending > 0
    /\ pending' = pending - 1
    /\ submitButtonLoading' = TryCatchFinally(outcome).submitButtonLoading
    /\ escaped' = (escaped \/ TryCatchFinally(outcome).escaped)
    /\ canRemoveValidationForFields' = EmptyObj
    /\ calls' = << >>
    /\ event' = "settle"
    /\ ended' = outcome
    /\ view' = NoView
    /\ UNCHANGED << schema, cfg, formValues, visibleFields, storage, mounted >>

\* An awaited promise settles: the handler resumes in catch/finally.
Settle(outcome) ==
    /\ pending > 0
    /\ pending' = pending - 1
    /\ submitButtonLoading' = TryCatchFinally(outcome).submitButtonLoading
    /\ escaped' = (escaped \/ TryCatchFinally(outcome).escaped)
    /\ calls' = << >>
    /\ event' = "settle"
    /\ ended' = outcome
    /\ view' = NoView
    /\ UNCHANGED << schema, cfg, formValues, canRemoveValidationForFields,
                    visibleFields, storage, mounted >>

\* Mutant: edits are held back while a submit callback is pending.
ValueChange_serialized(k, v) ==
    /\ pending = 0
    /\ k \in SchemaKeys(schema)
    /\ Lookup(formValues, k) # v
    /\ LET values == [x \in (DOMAIN formValues) \cup {k} |->
                         IF x = k THEN v ELSE formValues[x]]
           fx == RunEffects(schema, values, canRemoveValidationForFields,
                            visibleFields, storage, TRUE)
       IN  /\ formValues' = values
           /\ canRemoveValidationForFields' = fx.map
           /\ visibleFields' = fx.visible
           /\ storage' = fx.storage
           /\ calls' = fx.calls
    /\ event' = "change"
    /\ ended' = "none"
    /\ view' = NoView
    /\ UNCHANGED << schema, cfg, submitButtonLoading, pending, escaped, mounted >>

\* The user edits field k of the current field list: the snapshot changes
\* and the effects run.
ValueChange(k, v) ==
    /\ k \in SchemaKeys(schema)
    /\ Lookup(formValues, k) # v
    /\ LET values == [x \in (DOMAIN formValues) \cup {k} |->
                         IF x = k THEN v ELSE formValues[x]]
           fx == RunEffects(schema, values, canRemoveValidationForFields,
                            visibleFields, storage, TRUE)
       IN  /\ formValues' = values
           /\ canRemoveValidationForFields' = fx.map
           /\ visibleFields' = fx.visible
           /\ storage' = fx.storage
           /\ calls' = fx.calls
    /\ event' = "change"
    /\ ended' = "none"
    /\ view' = NoView
    /\ UNCHANGED << schema, cfg, submitButtonLoading, pending, escaped, mounted >>

\* Mutant: the conditional-rendering effect does not depend on schema, so
\* a new field list triggers no effect.
SwapSchema_noeffects(s) ==
    /\ s # schema
    /\ schema' = s
    /\ calls' = << >>
    /\ event' = "swap"
    /\ ended' = "none"
    /\ view' = NoView
    /\ UNCHANGED << cfg, formValues, canRemoveValidationForFields, visibleFields,
                    storage, submitButtonLoading, pending, escaped, mounted >>

\* The caller passes another field list: the hook renders again and the
\* effects that depend on schema run.
SwapSchema(s) ==
    /\ s # schema
    /\ schema' = s
    /\ LET fx == RunEffects(s, formValues, canRemoveValidationForFields,
                            visibleFields, storage, FALSE)
       IN  /\ canRemoveValidationForFields' = fx.map
           /\ visibleFields' = fx.visible
           /\ storage' = fx.storage
           /\ calls' = fx.calls
    /\ event' = "swap"
    /\ ended' = "none"
    /\ view' = NoView
    /\ UNCHANGED << cfg, formValues, submitButtonLoading, pending, escaped, mounted >>

Next ==
    \/ \E outcome \in Outcomes : SubmitValid(outcome)
    \/ \E outcome \in Outcomes : SubmitInvalid(outcome)
    \/ \E outcome \in Settlements : Settle(outcome)
    \/ \E k \in Keys, v \in Values : ValueChange(k, v)
    \/ \E s \in SchemaPool : SwapSchema(s)

Spec == Init /\ [][Next]_vars
SpecConditional == InitConditional /\ [][Next]_vars
SpecPlain == InitPlain /\ [][Next]_vars

\* ------------------------------------------------- consumers of the form
\* The value the form provider hands to its consumers: what useSchemaForm
\* returns.
ContextValue ==
    Obj([formFields |-> schema, visibleFields |-> visibleFields,
         submitButtonLoading |-> submitButtonLoading])

\* The form provider above a consumer, when there is one.
FormProviderIf(present) == IF present THEN Provider(ContextValue) ELSE NoProvider
\* <FormField name=...> above a consumer, when there is one.
FormFieldIf(present) ==
    IF present THEN Provider(Obj([name |-> schema[1].key])) ELSE NoProvider

\* A consumer renders `component` under the given providers with `result`.
Render(component, provider, formField, result) ==
    /\ view' = [component |-> component, provider |-> provider,
                formField |-> formField, result |-> result]
    /\ event' = "render"
    /\ calls' = << >>
    /\ ended' = "none"
    /\ UNCHANGED << schema, cfg, formValues, canRemoveValidationForFields,
                    visibleFields, submitButtonLoading, pending, storage,
                    escaped, mounted >>

CallUseFormix(provider) ==
    Render("useFormix", provider, FALSE, useFormix(FormProviderIf(provider)))

CallUseSchemaFormContext(provider) ==
    Render("useSchemaFormContext", provider, FALSE,
           useSchemaFormContext(FormProviderIf(provider)))

CallUseFormField(provider, formField) ==
    Render("useFormField", provider, formField,
           useFormField(FormProviderIf(provider), FormFieldIf(formField), NoProvider))

RenderFieldItem(formField) ==
    Render("FieldItem", TRUE, formField, FieldItem(FormFieldIf(formField)))

RenderFormFlexFields(provider) ==
    Render("FormFlexFields", provider, FALSE, FormFlexFields(FormProviderIf(provider)))

CallRenderFlexFields ==
    Render("renderFlexFields", TRUE, FALSE, renderFlexFields(schema, visibleFields))

CallRenderForm(hasRenderFields) ==
    Render(IF hasRenderFields THEN "renderForm(renderFields)" ELSE "renderForm",
           TRUE, FALSE, renderForm(hasRenderFields, schema, visibleFields))

NextConsumer ==
    \/ Next
    \/ \E provider \in BOOLEAN : CallUseFormix(provider)
    \/ \E provider \in BOOLEAN : CallUseSchemaFormContext(provider)
    \/ \E provider, formField \in BOOLEAN : CallUseFormField(provider, formField)
    \/ \E formField \in BOOLEAN : RenderFieldItem(formField)
    \/ \E provider \in BOOLEAN : RenderFormFlexFields(provider)
    \/ CallRenderFlexFields
    \/ \E hasRenderFields \in BOOLEAN : CallRenderForm(hasRenderFields)

\* The full configuration, with consumers rendering between the events.
InitConsumer ==
    \E c \in {x \in ConfigPool : x.persistFormResponse} : InitWith(c)

SpecConsumer == InitConsumer /\ [][NextConsumer]_vars

\* ------------------------------------------- the specified semantics
\* The field of the current list with key k.
FieldOf(k) == schema[CHOOSE i \in 1 .. Len(schema) : schema[i].key = k]

\* A condition evaluated as the specification words it: the live value of
\* the dependent field (undefined when absent), strict equality for the
\* two equality operators, the ordering of comparable values for the four
\* others, false for values that cannot be ordered.
ConditionHolds(c, snapshot) ==
    LET a == IF c.dependentField \in DOMAIN snapshot
             THEN snapshot[c.dependentField] ELSE Undefined
        b == c.dependentFieldValue
        comparable == a \in Nat /\ b \in Nat
    IN  \/ c.operator = "===" /\ a = b
        \/ c.operator = "!==" /\ ~(a = b)
        \/ c.operator = "<" /\ comparable /\ b - a > 0
        \/ c.operator = "<=" /\ comparable /\ b - a >= 0
        \/ c.operator = ">" /\ comparable /\ a - b > 0
        \/ c.operator = ">=" /\ comparable /\ a - b >= 0

AllHold(list, snapshot) == \A i \in 1 .. Len(list) : ConditionHolds(list[i], snapshot)

\* A list that is absent or empty.
NoConditions(optList) == ~optList.present \/ optList.list = << >>

\* The keys that have a validation error for the current snapshot.
ErroredKeys == ObjectKeys(CurrentErrors)

\* Field k is exempted under the current snapshot: it has a non-empty
\* removeValidationConditions list and all its conditions hold.
Exempted(k) ==
    /\ k \in SchemaKeys(schema)
    /\ ~NoConditions(FieldOf(k).removeValidationConditions)
    /\ AllHold(FieldOf(k).removeValidationConditions.list, formValues)

\* The keys whose exemption entry the last handler computed from the
\* current snapshot.
CheckedKeys ==
    (DOMAIN formValues)
        \cup (IF event = "submitInvalid"
              THEN ObjectKeys(stripRefsFromErrors(CurrentErrors)) ELSE {})

\* The error of one field without its ref property, and the errors of all
\* errored fields in that form.
SanitizedPlainError == JObj([type |-> JLeaf("custom"), message |-> JLeaf("Invalid")])

SanitizedFieldError(k) ==
    CASE k = "email" ->
            JArr(<< SanitizedPlainError, JObj([value |-> SanitizedPlainError]) >>)
      [] k = "password" ->
            JObj([type |-> JLeaf("custom"), message |-> JLeaf("Invalid"),
                  types |-> JObj([custom |-> JLeaf("Invalid")])])
      [] OTHER -> SanitizedPlainError

SanitizedErrorsOfAll == JObj([k \in ErroredKeys |-> SanitizedFieldError(k)])

SuccessCall == Call("onSubmit", formValues, NoErrors, EmptyObj)
FailureCall(errors) == Call("onInvalidSubmit", EmptyObj, errors, EmptyObj)

\* ----------------------------------------------------------------- claims
\* C1: on an invalid submit with conditional rendering on and a success
\* callback configured, when every errored field is exempted under the
\* current snapshot, the success callback is invoked exactly once with the
\* snapshot and the failure callback is not invoked.
C1_ValidByOverride ==
    ( /\ event = "submitInvalid"
      /\ cfg.enableConditionalRendering
      /\ cfg.hasOnSubmit
      /\ \A k \in ErroredKeys : Exempted(k) )
        => calls = << SuccessCall >>

C1_Witness ==
    /\ event = "submitInvalid"
    /\ cfg.enableConditionalRendering /\ cfg.hasOnSubmit /\ cfg.hasOnInvalidSubmit
    /\ ErroredKeys # {}
    /\ \A k \in ErroredKeys : Exempted(k)
    /\ calls = << SuccessCall >>

\* C2: on an invalid submit with conditional rendering on, when at least
\* one errored field is not exempted, the failure callback is invoked with
\* the sanitized errors of all errored fields and the success callback is
\* not invoked.
C2_PartialExemptionFails ==
    ( /\ event = "submitInvalid"
      /\ cfg.enableConditionalRendering
      /\ cfg.hasOnInvalidSubmit
      /\ \E k \in ErroredKeys : ~Exempted(k) )
        => calls = << FailureCall(SanitizedErrorsOfAll) >>

\* C3: a field whose removeValidationConditions list is absent or empty is
\* never exempted, on value change and on invalid submit, and an invalid
\* submit in which such a field has an error is never valid by override.
C3_NoConditionsNeverExempted ==
    (cfg.enableConditionalRendering /\ event \in {"change", "submitInvalid"}) =>
        /\ \A k \in CheckedKeys \cap SchemaKeys(schema) :
              NoConditions(FieldOf(k).removeValidationConditions)
                  => canRemoveValidationForFields[k] = FALSE
        /\ ( /\ event = "submitInvalid"
             /\ \E k \in ErroredKeys :
                   NoConditions(FieldOf(k).removeValidationConditions) )
               => \A i \in 1 .. Len(calls) : calls[i].fn # "onSubmit"

\* C4: for a field with a non-empty removeValidationConditions list the
\* exemption is true iff every condition of the list holds against the
\* snapshot, whatever the relation fields say.
C4_ExemptionIsConjunction ==
    cfg.enableConditionalRendering =>
        \A k \in CheckedKeys \cap SchemaKeys(schema) :
            ~NoConditions(FieldOf(k).removeValidationConditions)
                => ( canRemoveValidationForFields[k]
                        <=> AllHold(FieldOf(k).removeValidationConditions.list,
                                    formValues) )

C4_Witness ==
    /\ cfg.enableConditionalRendering
    /\ \E k \in (DOMAIN formValues) \cap SchemaKeys(schema) :
          LET l == FieldOf(k).removeValidationConditions.list
          IN  /\ \E i, j \in 1 .. Len(l) :
                    /\ ConditionHolds(l[i], formValues)
                    /\ ~ConditionHolds(l[j], formValues)
                    /\ l[j].relation # "and"
              /\ canRemoveValidationForFields[k] = FALSE

\* C5: whatever way the callback of a submit ends (returns, throws,
\* resolves, rejects), no error leaves the submit handler, and once the
\* handler has run to its end the loading flag is false.
C5_CallbackErrorsContained ==
    /\ ~escaped
    /\ (event \in {"submitValid", "submitInvalid", "settle"} /\ ended # "promise")
          => ~submitButtonLoading

C5_Witness ==
    /\ event = "settle"
    /\ ended = "rejects"
    /\ pending = 0
    /\ ~submitButtonLoading
    /\ ~escaped

\* C6: the loading flag is true only while a submit handler is awaiting
\* its callback.
C6_LoadingOnlyWhileSubmitting == submitButtonLoading => pending > 0

C6_Witness == submitButtonLoading /\ pending > 0 /\ event = "submitInvalid"

\* C7: with conditional rendering on, after a value change the visible set
\* holds the fields without displayConditions and those whose conditions
\* all hold against the snapshot, and no other.
C7_VisibleAfterChange ==
    (cfg.enableConditionalRendering /\ event = "change")
        => visibleFields =
              {k \in SchemaKeys(schema) :
                  \/ NoConditions(FieldOf(k).displayConditions)
                  \/ AllHold(FieldOf(k).displayConditions.list, formValues)}

C7_Witness ==
    /\ cfg.enableConditionalRendering
    /\ event = "change"
    /\ \E k \in SchemaKeys(schema) \ visibleFields :
          LET l == FieldOf(k).displayConditions.list
          IN  \E i, j \in 1 .. Len(l) :
                 ConditionHolds(l[i], formValues) /\ ~ConditionHolds(l[j], formValues)
    /\ \E k \in visibleFields : ~NoConditions(FieldOf(k).displayConditions)

\* C8: while conditional rendering is off, the visible set is the set of
\* keys of the current field list in every reachable state.
C8_AllVisibleWhenOff ==
    ~cfg.enableConditionalRendering => visibleFields = SchemaKeys(schema)

\* C9: while conditional rendering is off the exemption map never changes
\* and every invalid submit invokes the failure callback with the
\* sanitized errors, never the success callback.
C9_NoExemptionWhenOff ==
    ~cfg.enableConditionalRendering =>
        /\ canRemoveValidationForFields = EmptyObj
        /\ event = "submitInvalid" =>
              calls = IF cfg.hasOnInvalidSubmit
                      THEN << FailureCall(stripRefsFromErrors(CurrentErrors)) >>
                      ELSE << >>

C9_Witness ==
    /\ ~cfg.enableConditionalRendering
    /\ event = "submitInvalid"
    /\ cfg.hasOnSubmit
    /\ ErroredKeys # {}
    /\ \A k \in ErroredKeys : Exempted(k)
    /\ Len(calls) = 1 /\ calls[1].fn = "onInvalidSubmit"

\* C10: with validations off every submit takes the valid path: the
\* success callback is invoked with the snapshot and the failure callback
\* is never invoked.
C10_NoValidationAlwaysValid ==
    ~cfg.enableValidations =>
        /\ event # "submitInvalid"
        /\ \A i \in 1 .. Len(calls) : calls[i].fn # "onInvalidSubmit"
        /\ event = "submitValid" =>
              calls = IF cfg.hasOnSubmit THEN << SuccessCall >> ELSE << >>

C10_Witness ==
    /\ ~cfg.enableValidations
    /\ event = "submitValid"
    /\ \E i \in 1 .. Len(schema) :
          schema[i].hasValidations /\ Lookup(formValues, schema[i].key) \notin schema[i].accepts
    /\ cfg.hasOnInvalidSubmit
    /\ calls = << SuccessCall >>

\* The leaves of an error tree, each with its path from the root (property
\* names, and positions in arrays) and its value.
RECURSIVE Leaves(_)
Leaves(tree) ==
    IF tree.t = "leaf"
    THEN {<< << >>, tree.v >>}
    ELSE IF tree.t = "obj"
    THEN UNION {{<< << k >> \o l[1], l[2] >> : l \in Leaves(tree.f[k])} :
                    k \in DOMAIN tree.f}
    ELSE UNION {{<< << ToString(i) >> \o l[1], l[2] >> : l \in Leaves(tree.s[i])} :
                    i \in DOMAIN tree.s}

\* The path of a leaf passes through a property named ref.
UnderRef(leaf) == \E n \in 1 .. Len(leaf[1]) : leaf[1][n] = "ref"

\* The exemption entry the code computes for key k from a snapshot.
ResolvedFrom(k, snapshot) ==
    checkRemoveValidationCondition(FindRemoveValidationConditions(schema, k), snapshot)

\* The keys of the fields rendered by a render of FormFlexFields.
RenderedKeys ==
    LET fields == Prop(view.result.value, "fields")
    IN  {fields[i] : i \in DOMAIN fields}

\* C11: on a value change the change listener is notified after the
\* exemption map has been recomputed: every notification of the event
\* carries, with the new snapshot, the exemption entries resolved from
\* that same snapshot.
C11_ListenerSeesCurrentMap ==
    (cfg.enableConditionalRendering /\ event = "change") =>
        \A i \in 1 .. Len(calls) :
            calls[i].fn = "onChange" =>
                \A k \in DOMAIN calls[i].values :
                    /\ k \in DOMAIN calls[i].map
                    /\ calls[i].map[k] = ResolvedFrom(k, calls[i].values)

\* C12: a value change notifies the change listener exactly once and
\* leaves the new snapshot in the store when persistence is configured.
C12_OnePassPerChange ==
    event = "change" =>
        /\ Cardinality({i \in 1 .. Len(calls) : calls[i].fn = "onChange"}) = 1
        /\ cfg.persistFormResponse =>
              storage = [present |-> TRUE, values |-> formValues]

\* C13: at mount the snapshot value of each field is the stored value when
\* persistence is configured and the store holds one for the field,
\* otherwise the caller's default for it, otherwise the field's
\* defaultValue.
C13_InitialValuePriority ==
    event = "mount" =>
        \A k \in SchemaKeys(schema) :
            Lookup(formValues, k) =
                IF /\ cfg.persistFormResponse
                   /\ mounted.stored.present
                   /\ k \in DOMAIN mounted.stored.values
                THEN mounted.stored.values[k]
                ELSE IF k \in DOMAIN mounted.defaultValues
                THEN mounted.defaultValues[k]
                ELSE FieldOf(k).defaultValue

C13_Witness ==
    /\ event = "mount"
    /\ cfg.persistFormResponse
    /\ \E k \in SchemaKeys(schema) \cap DOMAIN mounted.stored.values :
          /\ k \in DOMAIN mounted.defaultValues
          /\ mounted.defaultValues[k] # mounted.stored.values[k]
          /\ formValues[k] = mounted.stored.values[k]
    /\ \E k \in (SchemaKeys(schema) \cap DOMAIN mounted.defaultValues)
                    \ DOMAIN mounted.stored.values :
          /\ FieldOf(k).defaultValue # mounted.defaultValues[k]
          /\ formValues[k] = mounted.defaultValues[k]
    /\ \E k \in SchemaKeys(schema) \ DOMAIN mounted.defaultValues :
          /\ k \notin DOMAIN mounted.stored.values
          /\ formValues[k] = FieldOf(k).defaultValue

\* C14: the errors handed to the failure callback are the errors of the
\* resolver without the properties named ref, at every depth, and with
\* every other property and its value; and the exemption check of an
\* invalid submit writes an entry for each top-level key of these
\* sanitized errors and for no other key.
C14_SanitizedErrors ==
    /\ [](event = "submitInvalid" =>
             \A i \in 1 .. Len(calls) :
                 calls[i].fn = "onInvalidSubmit" =>
                     Leaves(calls[i].errors) =
                         {l \in Leaves(CurrentErrors) : ~UnderRef(l)})
    /\ [][(event' = "submitInvalid" /\ cfg.enableConditionalRendering) =>
             DOMAIN canRemoveValidationForFields' =
                 (DOMAIN canRemoveValidationForFields) \cup (ErroredKeys \ {"ref"})]_vars

C14_Witness ==
    /\ event = "submitInvalid"
    /\ cfg.enableConditionalRendering
    /\ {"email", "password"} \subseteq ErroredKeys
    /\ Len(calls) = 1 /\ calls[1].fn = "onInvalidSubmit"
    /\ \E l \in Leaves(CurrentErrors) : UnderRef(l) /\ Len(l[1]) > 2
    /\ \A l \in Leaves(calls[1].errors) : ~UnderRef(l)

\* C15: useFormix and useSchemaFormContext throw when no provider is above
\* the caller and return the provider's value as it is otherwise; the
\* error is not caught by the library code that calls them.
C15_HooksThrowWithoutProvider ==
    /\ view.component \in {"useFormix", "useSchemaFormContext"} =>
          IF view.provider
          THEN view.result = Return(ContextValue)
          ELSE view.result.threw
    /\ (view.component \in {"useFormField", "FormFlexFields"} /\ ~view.provider) =>
          view.result.threw

C15_Witness ==
    /\ view.component = "useFormix"
    /\ ~view.provider
    /\ view.result = Throw

\* C16: FormFlexFields renders a field iff its key is in the visible set.
C16_FlexFieldsRenderVisibleOnly ==
    (view.component = "FormFlexFields" /\ view.provider) =>
        RenderedKeys = visibleFields

\* C17: for a key that has an error and is held by the snapshot, the entry
\* an invalid submit records in the exemption map is the entry the
\* reactive computation records for that key and snapshot.
C17_SameExemptionFunction ==
    (cfg.enableConditionalRendering /\ event = "submitInvalid") =>
        \A k \in (ErroredKeys \ {"ref"}) \cap DOMAIN formValues :
            canRemoveValidationForFields[k] =
                onChangeRemoveValidationCheck(schema, formValues, EmptyObj)[k]

C17_Witness ==
    /\ cfg.enableConditionalRendering
    /\ event = "submitInvalid"
    /\ \E k1, k2 \in (ErroredKeys \ {"ref"}) \cap DOMAIN formValues :
          /\ canRemoveValidationForFields[k1]
          /\ ~canRemoveValidationForFields[k2]

C19_FieldConsumersNeedFormField ==
    (view.component \in {"useFormField", "FieldItem"} /\ view.provider) =>
        (view.result.threw <=> ~view.formField)

\* C20: a field that depends on a field hidden by its own displayConditions
\* is visible iff its own conditions hold against the snapshot.
C20_NoCascade ==
    cfg.enableConditionalRendering =>
        \A b \in SchemaKeys(schema) :
            LET l == FieldOf(b).displayConditions.list
            IN  ( /\ ~NoConditions(FieldOf(b).displayConditions)
                  /\ \E i \in 1 .. Len(l) :
                        l[i].dependentField \in SchemaKeys(schema) \ visibleFields )
                    => (b \in visibleFields <=> AllHold(l, formValues))

C20_Witness ==
    /\ cfg.enableConditionalRendering
    /\ \E b \in visibleFields :
          LET l == FieldOf(b).displayConditions.list
          IN  /\ ~NoConditions(FieldOf(b).displayConditions)
              /\ \E i \in 1 .. Len(l) :
                    /\ l[i].dependentField \in SchemaKeys(schema) \ visibleFields
                    /\ ~NoConditions(FieldOf(l[i].dependentField).displayConditions)

\* The exemption map derived from the current field list and the current
\* snapshot alone.
DerivedExemptionMap == [k \in DOMAIN formValues |-> ResolvedFrom(k, formValues)]

\* C21: with conditional rendering on, after a value change the exemption
\* map is the value derived from the current field list and the current
\* snapshot and nothing else, so that histories ending in the same field
\* list and snapshot end in the same map.
C21_MapIsLatestDerivedValue ==
    (cfg.enableConditionalRendering /\ event = "change") =>
        canRemoveValidationForFields = DerivedExemptionMap

\* The keys of the current field list whose rule rejects the snapshot value.
FailingKeys ==
    {k \in SchemaKeys(schema) :
        FieldOf(k).hasValidations /\ Lookup(formValues, k) \notin FieldOf(k).accepts}

\* C22: with conditional rendering on, after a swap of the field list the
\* visible set, the exemption entries of the snapshot keys and the errors
\* of validation are those of the new list and the current snapshot; the
\* visible set holds keys of the new list only.
C22_SwapRederives ==
    (cfg.enableConditionalRendering /\ event = "swap") =>
        /\ visibleFields =
              {k \in SchemaKeys(schema) :
                  \/ NoConditions(FieldOf(k).displayConditions)
                  \/ AllHold(FieldOf(k).displayConditions.list, formValues)}
        /\ \A k \in DOMAIN formValues :
              canRemoveValidationForFields[k] = ResolvedFrom(k, formValues)
        /\ cfg.enableValidations => ErroredKeys = FailingKeys

C22_Witness ==
    /\ cfg.enableConditionalRendering
    /\ event = "swap"
    /\ \E k \in (DOMAIN formValues) \ SchemaKeys(schema) : k \notin visibleFields
    /\ SchemaKeys(schema) \ visibleFields # {}
    /\ \E k \in DOMAIN formValues : canRemoveValidationForFields[k]

\* The six operators a condition may name.
RecognisedOperators == {"===", "!==", "<", "<=", ">", ">="}

\* Every condition of the current field list, of either kind.
ConditionsOfSchema ==
    UNION {{schema[i].displayConditions.list[n] :
                n \in 1 .. Len(schema[i].displayConditions.list)}
           \cup {schema[i].removeValidationConditions.list[n] :
                n \in 1 .. Len(schema[i].removeValidationConditions.list)} :
           i \in 1 .. Len(schema)}

\* C23: a condition whose dependent field is absent from the snapshot
\* evaluates to true for !== and to false for ===, <, <=, > and >=; a
\* condition with an operator outside these six evaluates to false.
C23_AbsentFieldAndUnknownOperator ==
    \A c \in ConditionsOfSchema :
        /\ (c.dependentField \notin DOMAIN formValues
               /\ c.operator \in RecognisedOperators)
              => (EvalCondition(c, formValues) <=> c.operator = "!==")
        /\ c.operator \notin RecognisedOperators => ~EvalCondition(c, formValues)

C23_Witness ==
    /\ \E c \in ConditionsOfSchema :
          /\ c.dependentField \notin DOMAIN formValues
          /\ c.operator = "!=="
          /\ EvalCondition(c, formValues)
    /\ \E c \in ConditionsOfSchema :
          /\ c.dependentField \notin DOMAIN formValues
          /\ c.operator \in {"<", "<=", ">", ">="}
          /\ ~EvalCondition(c, formValues)
    /\ cfg.enableConditionalRendering
    /\ "ref" \in visibleFields

\* C24: a submit changes neither the snapshot, nor the visible set, nor
\* the stored values, at its dispatch or when its callback completes; the
\* exemption map is written by the exemption check of an invalid submit
\* before the callback is invoked and by no other step of a submit.
C24_SubmitFrame ==
    [][ /\ event' \in {"submitValid", "submitInvalid", "settle"} =>
              UNCHANGED << formValues, visibleFields, storage >>
        /\ event' \in {"submitValid", "settle"} =>
              UNCHANGED canRemoveValidationForFields ]_vars

C24_Witness ==
    /\ event = "settle"
    /\ ended = "resolves"
    /\ pending = 0
    /\ cfg.enableConditionalRendering
    /\ cfg.persistFormResponse
    /\ \E k \in DOMAIN canRemoveValidationForFields : canRemoveValidationForFields[k]
    /\ SchemaKeys(schema) \ visibleFields # {}
    /\ storage.values = formValues

\* C25: while at least one submit callback is pending the loading flag is
\* true.
C25_LoadingWhilePending == pending > 0 => submitButtonLoading

\* C26: on an invalid submit with conditional rendering on, the keys
\* handed to the exemption check are the top-level keys of the errors of
\* validation, and the success callback is not invoked while some errored
\* field is not exempted.
C26_EveryErroredKeyChecked ==
    (cfg.enableConditionalRendering /\ event = "submitInvalid") =>
        /\ ObjectKeys(stripRefsFromErrors(CurrentErrors)) = ErroredKeys
        /\ (\E k \in ErroredKeys : ~Exempted(k)) =>
              \A i \in 1 .. Len(calls) : calls[i].fn # "onSubmit"

\* C27: on an invalid submit the failure callback is invoked only if
\* conditional rendering is off or some errored field is not exempted.
C27_FailureOnlyWhenNotExempted ==
    ( /\ event = "submitInvalid"
      /\ \E i \in 1 .. Len(calls) : calls[i].fn = "onInvalidSubmit" )
        => \/ ~cfg.enableConditionalRendering
           \/ \E k \in ErroredKeys : ~Exempted(k)

\* The field list without its displayConditions.
WithoutDisplayConditions(sch) ==
    [i \in DOMAIN sch |-> [sch[i] EXCEPT !.displayConditions = Absent]]

\* The callbacks a submit of the current snapshot invokes for field list
\* sch: handleSubmit validates with the rules compiled from sch and runs
\* handleOnSubmit or handleOnInvalidSubmit.
SubmitCallsFor(sch) ==
    LET errors == Resolver(cfg.enableValidations, generateDynamicSchema(sch), formValues)
        sanitizedErrors == stripRefsFromErrors(errors)
        isValid == onErrorRemoveValidationCheck(ObjectKeys(sanitizedErrors), sch,
                       formValues, EmptyObj).isValidForSubmission
    IN  IF ObjectKeys(errors) = {}
        THEN IF cfg.hasOnSubmit THEN << SuccessCall >> ELSE << >>
        ELSE IF cfg.enableConditionalRendering /\ isValid /\ cfg.hasOnSubmit
        THEN << SuccessCall >>
        ELSE IF cfg.hasOnInvalidSubmit
        THEN << FailureCall(sanitizedErrors) >>
        ELSE << >>

\* C28: the callback a submit invokes, and its argument, are those the
\* same form without displayConditions would get; and when a hidden field
\* fails validation and is not exempted the submit is invalid and the
\* failure callback is invoked.
C28_OutcomeIgnoresVisibility ==
    event \in {"submitValid", "submitInvalid"} =>
        /\ calls = SubmitCallsFor(WithoutDisplayConditions(schema))
        /\ ( /\ cfg.hasOnInvalidSubmit
             /\ \E k \in SchemaKeys(schema) \ visibleFields :
                   k \in ErroredKeys /\ ~Exempted(k) )
              => /\ event = "submitInvalid"
                 /\ \E i \in 1 .. Len(calls) : calls[i].fn = "onInvalidSubmit"

\* A step writes the exemption entries of `keys`, each with the value
\* resolved from the snapshot, and leaves every other entry as it was.
WritesExactly(keys) ==
    /\ DOMAIN canRemoveValidationForFields' =
          (DOMAIN canRemoveValidationForFields) \cup keys
    /\ \A k \in keys :
          canRemoveValidationForFields'[k] = ResolvedFrom(k, formValues')
    /\ \A k \in (DOMAIN canRemoveValidationForFields) \ keys :
          canRemoveValidationForFields'[k] = canRemoveValidationForFields[k]

\* C29: with conditional rendering on, a value change writes exactly the
\* exemption entries of the keys of the new snapshot, an invalid submit
\* exactly those of the top-level keys of the errors handed to the check,
\* and every other entry keeps its value.
C29_WritesOnlyCandidateKeys ==
    [][ cfg.enableConditionalRendering =>
          /\ event' = "change" => WritesExactly(DOMAIN formValues')
          /\ event' = "submitInvalid" =>
                WritesExactly(ObjectKeys(stripRefsFromErrors(CurrentErrors))) ]_vars

C29_Witness ==
    /\ cfg.enableConditionalRendering
    /\ event = "change"
    /\ \E k \in (DOMAIN canRemoveValidationForFields) \ DOMAIN formValues :
          canRemoveValidationForFields[k]
    /\ \E k \in DOMAIN formValues : ~canRemoveValidationForFields[k]

\* The keys of the fields of the current list that the visible set holds,
\* in the order of the list.
VisibleInListOrder ==
    SelectSeq([i \in 1 .. Len(schema) |-> schema[i].key],
              LAMBDA key : key \in visibleFields)

\* C30: renderFlexFields, and renderForm without a renderFields function,
\* render the fields of the field list whose key is in the visible set,
\* each once and in the order of the list, and no other field.
C30_RenderVisibleInOrder ==
    view.component \in {"renderFlexFields", "renderForm"} =>
        /\ ~view.result.threw
        /\ Prop(view.result.value, "fields") = VisibleInListOrder

C30_Witness ==
    /\ view.component = "renderFlexFields"
    /\ Len(Prop(view.result.value, "fields")) > 1
    /\ \E i \in 1 .. Len(schema) - 1 : schema[i].key \notin visibleFields

====
